---- MODULE Spec2Model ----
(***************************************************************************)
(* The multiplexing core of the triggerhappy daemon (thd.c): the device    *)
(* registry, the select() loop of process_events and the line framing of   *)
(* the command FIFO in read_command_pipe.                                  *)
(*                                                                         *)
(* Bytes are one-character strings, C strings are sequences of bytes.      *)
(* The command buffer is scaled down: MAXCMD is 1024 in thd.c:34 and a     *)
(* small number here, and the two keywords compared by strcmp are scaled   *)
(* with it: "ADD" is the one-byte word "A" and "REMOVE" the word "R".      *)
(***************************************************************************)
EXTENDS Integers, Sequences, FiniteSets, TLC

\* ---------------------------------------------------------------- bounds
MAXCMD == 6          \* capacity of cmdbuffer (scaled, see above)
MaxArgs == 2         \* device paths on the command line

\* -------------------------------------------------------------- constants
NULL == "NULL"
NL == "\n"
SP == " "
TAB == "\t"
ADD == <<"A">>
REMOVE == <<"R">>
NoLine == <<"-">>

\* sizeof(struct input_event): the only read size that is not a fault
EVSIZE == 24

\* the types of struct input_event: the two that read_event forwards and one
\* of the others
EV_KEY == "EV_KEY"
EV_SW == "EV_SW"
EV_REL == "EV_REL"
EvTypes == {EV_KEY, EV_SW, EV_REL}

\* free(command_pipe) in open_cmd is handed optarg, a pointer into argv that
\* no allocator returned: the call is undefined. It returns, or the allocator
\* detects the pointer and aborts the process.
FreeOutcomes == {"returns", "aborts"}

\* the device paths the command line and the FIFO's clients name
Paths == {<<"x">>, <<"y">>}

\* a line without newline that fills the buffer to MAXCMD-1 bytes
Filler == [i \in 1..(MAXCMD - 1) |-> "x"]

\* what the clients of the FIFO write, one write() per element
Scripts ==
  { << <<"A", SP, "z", NL>>, <<"R", SP, "x", NL>> >>,
    << <<"A", SP, "x">>, <<NL>> >>,
    << <<"A", SP, "x", NL>>, <<"A", SP, "x", NL>> >>,
    << <<"F", SP, "x", NL>>, <<"A", NL>> >>,
    << Filler, <<"R", SP, "x", NL>> >>,
    << <<"A", SP, "x">>, <<"R", SP, "y", NL>> >> }

\* what the uninitialised read area may hold between the bytes read and the
\* first NUL
Garbage == {<<>>, <<"x">>, <<NL>>, <<"x", NL>>}

Min(a, b) == IF a < b THEN a ELSE b

\* ------------------------------------------------------------------ state
VARIABLES
  pc,            \* position of the daemon
  argv,          \* the device paths still to add, argv[i..argc-1]
  command_pipe,  \* thd.c:30
  cmdfd,         \* thd.c:31
  cmdbuffer,     \* thd.c:35, as the C string it holds
  devs,          \* thd.c:27, the list as a sequence of [devname, fd]
  rfds,          \* the fd_set select() filled
  p,             \* the cursor of process_devices
  exitcode,      \* what start_readers returned, -1 while it runs
  pipe,          \* bytes written to the FIFO and not read yet
  writer,        \* "none", "open" or "closed": the FIFO's writing end
  broken,        \* descriptors of devices whose next read is short
  unread,        \* device descriptors select() reported and nothing read yet
  script,        \* what the clients of the FIFO have still to write
  nerrors,       \* failing read() calls on the command descriptor so far
  calls,         \* the system calls of the latest step, if the daemon took it
  line,          \* the line that step handed to process_commandline, or NoLine
  faults,        \* devices removed after a short read, so far
  eofs,          \* resets of the buffer on a read of zero bytes, so far
  tail,          \* the bytes read since the last EOF that follow its last newline
  due            \* the complete lines read and not handed to the parser yet

vars == <<pc, argv, command_pipe, cmdfd, cmdbuffer, devs, rfds, p, exitcode,
          pipe, writer, broken, unread, script, nerrors, calls, line, faults, eofs,
          tail, due>>

prog == <<pc, command_pipe, cmdfd, cmdbuffer, devs, rfds, p, exitcode>>
env == <<pipe, writer, broken, unread, script, nerrors>>

\* one system call: its name, the path or the descriptor it is given, the byte
\* count it asks for and what it returns
Call(name, path, fd, count, ret) ==
  [call |-> name, path |-> path, fd |-> fd, count |-> count, ret |-> ret]

\* a call of a collaborator with an event of type type
Deliver(to, fd, type) ==
  [call |-> to, path |-> <<>>, fd |-> fd, count |-> 0, ret |-> 0, type |-> type]

Closed(cs) == {cs[i].fd : i \in {j \in 1..Len(cs) : cs[j].call = "close"}}
Has(cs, name) == \E i \in 1..Len(cs) : cs[i].call = name

\* ------------------------------------------------------- device registry
DevFds(list) == {list[i].fd : i \in 1..Len(list)}
DevNames(list) == {list[i].devname : i \in 1..Len(list)}
Count(dev, list) == Cardinality({i \in 1..Len(list) : list[i].devname = dev})

\* open() returns the lowest descriptor that is not in use
LowestFree(used) ==
  CHOOSE n \in 3..(3 + Cardinality(used)) :
    n \notin used /\ \A m \in 3..(n - 1) : m \in used

\* index of the first entry named dev, 0 if there is none
FirstIndex(dev, list) ==
  IF dev \in DevNames(list)
  THEN CHOOSE i \in 1..Len(list) :
         list[i].devname = dev /\ \A j \in 1..(i - 1) : list[j].devname # dev
  ELSE 0

RemoveAt(list, i) == SubSeq(list, 1, i - 1) \o SubSeq(list, i + 1, Len(list))

count_devices(list) == Len(list)

\* unlinks the entry named dev and closes its descriptor; no-op if absent
remove_device(dev, list) ==
  LET i == FirstIndex(dev, list)
  IN  IF i = 0 THEN [list |-> list, calls |-> <<>>]
      ELSE [list |-> RemoveAt(list, i),
            calls |-> <<Call("close", <<>>, list[i].fd, 0, 0)>>]

\* what open() returns: the lowest free descriptor, or -1 when it fails
open(ok, used) == IF ok THEN LowestFree(used) ELSE -1

\* opens dev and appends it at the tail; fd is what open() returned
add_device(dev, list, fd) ==
  [list |-> IF fd < 0 THEN list
            ELSE Append(list, [devname |-> dev, fd |-> fd]),
   calls |-> <<Call("open", dev, -1, 0, fd)>>]

\* ------------------------------------------------------- command parsing
IsDelim(c) == c \in {SP, TAB}

RECURSIVE SkipDelims(_)
SkipDelims(s) ==
  IF s # <<>> /\ IsDelim(Head(s)) THEN SkipDelims(Tail(s)) ELSE s

RECURSIVE TakeToken(_)
TakeToken(s) ==
  IF s = <<>> \/ IsDelim(Head(s)) THEN <<>>
  ELSE <<Head(s)>> \o TakeToken(Tail(s))

\* strtok(s, " \t"): the next token (<<>> for NULL) and where the scan resumes
strtok(s) ==
  LET t == SkipDelims(s)
      tok == TakeToken(t)
  IN  [tok |-> tok, rest |-> SubSeq(t, Len(tok) + 2, Len(t))]

\* process_commandline with the remove_device of ADD left out
process_commandline_noremove(l, list, ok) ==
  LET op == strtok(l)
      dev == strtok(op.rest).tok
  IN  IF op.tok = <<>> THEN [list |-> list, calls |-> <<>>]
      ELSE IF op.tok = ADD /\ dev # <<>>
      THEN add_device(dev, list, open(ok, DevFds(list) \cup {cmdfd}))
      ELSE IF op.tok = REMOVE /\ dev # <<>>
      THEN remove_device(dev, list)
      ELSE [list |-> list, calls |-> <<>>]

\* process_commandline with strcmp("REMOVE", op) tested for non-zero
process_commandline_anyop(l, list, ok) ==
  LET op == strtok(l)
      dev == strtok(op.rest).tok
  IN  IF op.tok = <<>> THEN [list |-> list, calls |-> <<>>]
      ELSE IF op.tok = ADD /\ dev # <<>>
      THEN LET r == remove_device(dev, list)
               a == add_device(dev, r.list,
                               open(ok, DevFds(r.list) \cup {cmdfd}))
           IN  [list |-> a.list, calls |-> r.calls \o a.calls]
      ELSE IF op.tok # REMOVE /\ dev # <<>>
      THEN remove_device(dev, list)
      ELSE [list |-> list, calls |-> <<>>]

\* the registry and the system calls after one command line; ok is whether
\* the open() of an ADD succeeds
process_commandline(l, list, ok) ==
  LET op == strtok(l)
      dev == strtok(op.rest).tok
  IN  IF op.tok = <<>> THEN [list |-> list, calls |-> <<>>]
      ELSE IF op.tok = ADD /\ dev # <<>>
      THEN LET r == remove_device(dev, list)
               a == add_device(dev, r.list,
                               open(ok, DevFds(r.list) \cup {cmdfd}))
           IN  [list |-> a.list, calls |-> r.calls \o a.calls]
      ELSE IF op.tok = REMOVE /\ dev # <<>>
      THEN remove_device(dev, list)
      ELSE [list |-> list, calls |-> <<>>]

\* index of the first newline of s, 0 if it has none (strchr)
strchr(s) ==
  IF \E i \in 1..Len(s) : s[i] = NL
  THEN CHOOSE i \in 1..Len(s) : s[i] = NL /\ \A j \in 1..(i - 1) : s[j] # NL
  ELSE 0

\* the complete lines of a byte string, and the bytes after its last newline
RECURSIVE LinesOf(_)
LinesOf(s) ==
  LET nl == strchr(s)
  IN  IF nl = 0 THEN <<>>
      ELSE <<SubSeq(s, 1, nl - 1)>> \o LinesOf(SubSeq(s, nl + 1, Len(s)))

RECURSIVE RestOf(_)
RestOf(s) ==
  LET nl == strchr(s)
  IN  IF nl = 0 THEN s ELSE RestOf(SubSeq(s, nl + 1, Len(s)))

RECURSIVE Flatten(_)
Flatten(ls) ==
  IF ls = <<>> THEN <<>> ELSE Head(ls) \o <<NL>> \o Flatten(Tail(ls))

\* ---------------------------------------------------------------- startup
\* the state main() hands to start_readers, the clients' writes drawn from S
InitWith(S) ==
  /\ pc = "start"
  /\ argv \in UNION {[1..n -> Paths] : n \in 0..MaxArgs}
  /\ command_pipe \in {NULL, "fifo"}
  /\ cmdfd = -1
  /\ cmdbuffer = <<>>
  /\ devs = <<>>
  /\ rfds = {}
  /\ p = 1
  /\ exitcode = -1
  /\ pipe = <<>>
  /\ writer = "none"
  /\ broken = {}
  /\ unread = {}
  /\ script \in IF command_pipe = NULL THEN {<<>>} ELSE S
  /\ nerrors = 0
  /\ calls = <<>>
  /\ faults = 0
  /\ eofs = 0
  /\ line = NoLine
  /\ tail = <<>>
  /\ due = <<>>

Init == InitWith(Scripts)

\* open(command_pipe, O_RDONLY | O_NONBLOCK); ok is whether it succeeds
open_cmd(ok) ==
  LET fd == open(ok, DevFds(devs))
  IN  [cmdfd |-> fd,
       command_pipe |-> IF fd < 0 THEN NULL ELSE command_pipe,
       calls |-> <<Call("open", <<command_pipe>>, -1, 0, fd)>>]

\* the loop of start_readers over argv[i..]; oks[i] is whether open() succeeds
\* and cfd the command descriptor
RECURSIVE AddAll(_, _, _, _, _)
AddAll(args, oks, i, acc, cfd) ==
  IF i > Len(args) THEN acc
  ELSE LET a == add_device(args[i], acc.list,
                           open(oks[i], DevFds(acc.list) \cup {cfd}))
       IN  AddAll(args, oks, i + 1,
                  [list |-> a.list, calls |-> acc.calls \o a.calls], cfd)

Ghosts == <<line, faults, eofs, tail, due>>

start_readers ==
  /\ pc = "start"
  /\ \/ /\ Len(argv) < 1 /\ command_pipe = NULL
        /\ pc' = "done" /\ exitcode' = 1
        /\ calls' = <<>>
        /\ UNCHANGED <<command_pipe, cmdfd, devs>>
     \/ /\ ~(Len(argv) < 1 /\ command_pipe = NULL)
        /\ command_pipe # NULL
        /\ LET c == open_cmd(FALSE)
           IN  /\ cmdfd' = c.cmdfd
               /\ command_pipe' = c.command_pipe
               /\ calls' = c.calls
        /\ \E f \in FreeOutcomes :
             IF f = "aborts"
             THEN pc' = "aborted" /\ UNCHANGED exitcode
             ELSE pc' = "done" /\ exitcode' = 1
        /\ UNCHANGED devs
     \/ /\ ~(Len(argv) < 1 /\ command_pipe = NULL)
        /\ \E oks \in [1..Len(argv) -> BOOLEAN] :
             LET c == IF command_pipe # NULL THEN open_cmd(TRUE)
                      ELSE [cmdfd |-> cmdfd, command_pipe |-> command_pipe,
                            calls |-> <<>>]
                 a == AddAll(argv, oks, 1, [list |-> devs, calls |-> c.calls],
                             c.cmdfd)
             IN  /\ cmdfd' = c.cmdfd
                 /\ command_pipe' = c.command_pipe
                 /\ devs' = a.list
                 /\ calls' = a.calls
        /\ pc' = "loop"
        /\ UNCHANGED exitcode
  /\ argv' = IF pc' = "loop" THEN <<>> ELSE argv
  /\ UNCHANGED <<cmdbuffer, rfds, p, env, Ghosts>>

\* ------------------------------------------------------ the select() loop
\* the while condition with && for ||
LoopCond_and == count_devices(devs) > 0 /\ cmdfd # -1

\* the while condition of process_events
LoopCond == count_devices(devs) > 0 \/ cmdfd # -1

\* add_to_fdset and the FD_SET of the command descriptor
Watched == DevFds(devs) \cup (IF cmdfd # -1 THEN {cmdfd} ELSE {})

\* the FIFO is readable when it holds bytes or its writing end was closed
CmdReady == cmdfd # -1 /\ (pipe # <<>> \/ writer = "closed")

\* a device whose next read is short is readable
MustBeReady ==
  ((broken \cup unread) \cap DevFds(devs)) \cup (IF CmdReady THEN {cmdfd} ELSE {})

\* the test after process_devices without its FD_ISSET
AfterDevices_noisset(fds) == IF cmdfd # -1 THEN "command" ELSE "loop"

\* process_devices has returned: the test of the command descriptor in fds
AfterDevices(fds) == IF cmdfd # -1 /\ cmdfd \in fds THEN "command" ELSE "loop"

\* the cursor of process_devices after the turns that find FD_ISSET false: the
\* first entry from i on whose descriptor is in fds, Len(list) + 1 at the end
FirstReady(fds, list, i) ==
  IF \E j \in i..Len(list) : list[j].fd \in fds
  THEN CHOOSE j \in i..Len(list) :
         list[j].fd \in fds /\ \A k \in i..(j - 1) : list[k].fd \notin fds
  ELSE Len(list) + 1

\* the while condition of process_events is false: start_readers returns 0
process_events_exit ==
  /\ pc = "loop"
  /\ ~LoopCond
  /\ pc' = "done" /\ exitcode' = 0
  /\ calls' = <<>>
  /\ UNCHANGED <<argv, command_pipe, cmdfd, cmdbuffer, devs, rfds, p, env, Ghosts>>

\* select() fails and the loop tests if (retval) alone: the pass is made over
\* the sets as they were handed to select()
select_fail_dispatch ==
  /\ pc = "loop"
  /\ LoopCond
  /\ calls' = <<Call("select", <<>>, -1, 0, -1)>>
  /\ line' = NoLine
  /\ unread' = DevFds(devs)
  /\ LET q == FirstReady(Watched, devs, 1)
     IN  IF q > Len(devs)
         THEN pc' = AfterDevices(Watched) /\ rfds' = Watched \cap {cmdfd} /\ p' = 1
         ELSE pc' = "devices" /\ rfds' = Watched /\ p' = q
  /\ UNCHANGED <<argv, command_pipe, cmdfd, cmdbuffer, devs, exitcode,
                 pipe, writer, broken, script, nerrors, faults, eofs, tail, due>>

\* select() fails: perror and the next iteration
select_fail ==
  /\ pc = "loop"
  /\ LoopCond
  /\ calls' = <<Call("select", <<>>, -1, 0, -1)>>
  /\ line' = NoLine
  /\ UNCHANGED <<prog, argv, env, faults, eofs, tail, due>>

\* select() returns 0 after 5 seconds: nothing was readable
select_timeout ==
  /\ pc = "loop"
  /\ LoopCond
  /\ MustBeReady = {}
  /\ calls' = <<Call("select", <<>>, -1, 0, 0)>>
  /\ line' = NoLine
  /\ UNCHANGED <<prog, argv, env, faults, eofs, tail, due>>

\* select() reports the descriptors R readable and process_devices moves its
\* cursor to the first entry it has to read, or returns when there is none
select_ready ==
  /\ pc = "loop"
  /\ LoopCond
  /\ \E R \in SUBSET Watched :
       /\ R # {}
       /\ MustBeReady \subseteq R
       /\ cmdfd \in R => CmdReady
       /\ unread' = R \cap DevFds(devs)
       /\ calls' = <<Call("select", <<>>, -1, 0, Cardinality(R))>>
       /\ LET q == FirstReady(R, devs, 1)
          IN  IF q > Len(devs)
              THEN pc' = AfterDevices(R) /\ rfds' = R \cap {cmdfd} /\ p' = 1
              ELSE pc' = "devices" /\ rfds' = R /\ p' = q
  /\ line' = NoLine
  /\ UNCHANGED <<argv, command_pipe, cmdfd, cmdbuffer, devs, exitcode,
                 pipe, writer, broken, script, nerrors, faults, eofs, tail, due>>

\* the size read() returns on the device descriptor fd
ReadSize(fd) == IF fd \in broken THEN 0 ELSE EVSIZE

\* read_event with the size tested by n < 0
read_event_lt(fd) == IF ReadSize(fd) < 0 THEN 1 ELSE 0

\* read_event: 1 when the read is not a whole struct input_event, else 0
read_event(fd) == IF ReadSize(fd) # EVSIZE THEN 1 ELSE 0

\* what read() on a device descriptor yields: its size and, for a whole
\* struct input_event, the type of the event
ReadEv(fd, type) ==
  [call |-> "read", path |-> <<>>, fd |-> fd, count |-> EVSIZE,
   ret |-> ReadSize(fd), type |-> type]

\* the handlers of read_event with the test of EV_SW left out
handlers_keyonly(fd, type) ==
  IF type = EV_KEY
  THEN <<Deliver("change_keystate", fd, type), Deliver("run_triggers", fd, type)>>
  ELSE <<>>

\* the handlers read_event calls for a whole event of type type
handlers(fd, type) ==
  IF type = EV_KEY \/ type = EV_SW
  THEN <<Deliver("change_keystate", fd, type), Deliver("run_triggers", fd, type)>>
  ELSE <<>>

\* process_devices without the return after remove_device: the pass goes on
\* with the entries that follow
process_devices_noreturn ==
  /\ pc = "devices"
  /\ line' = NoLine
  /\ LET fd == devs[p].fd
     IN  IF read_event(fd) # 0
         THEN LET r == remove_device(devs[p].devname, devs)
                  q == FirstReady(rfds \ {fd}, r.list, p)
              IN  /\ devs' = r.list
                  /\ calls' = <<ReadEv(fd, "none")>> \o r.calls
                  /\ broken' = broken \ Closed(r.calls)
                  /\ unread' = (unread \ {fd}) \ Closed(r.calls)
                  /\ faults' = faults + 1
                  /\ IF q > Len(r.list)
                     THEN pc' = AfterDevices(rfds) /\ rfds' = rfds \cap {cmdfd} /\ p' = 1
                     ELSE pc' = pc /\ rfds' = rfds \ {fd} /\ p' = q
         ELSE /\ \E type \in EvTypes :
                   calls' = <<ReadEv(fd, type)>> \o handlers(fd, type)
              /\ unread' = unread \ {fd}
              /\ LET q == FirstReady(rfds, devs, p + 1)
                 IN  IF q > Len(devs)
                     THEN pc' = AfterDevices(rfds) /\ rfds' = rfds \cap {cmdfd} /\ p' = 1
                     ELSE pc' = pc /\ rfds' = rfds /\ p' = q
              /\ UNCHANGED <<devs, broken, faults>>
  /\ UNCHANGED <<argv, command_pipe, cmdfd, cmdbuffer, exitcode,
                 pipe, writer, script, nerrors, eofs, tail, due>>

\* process_devices from the read_event of the entry at the cursor to the next
\* entry it has to read: a short read removes the device and ends the pass,
\* a whole event moves the cursor on. When the pass ends the test of the
\* command descriptor in rfds is made: p and the bits of the devices in rfds
\* are dead
process_devices ==
  /\ pc = "devices"
  /\ line' = NoLine
  /\ LET fd == devs[p].fd
     IN  IF read_event(fd) # 0
         THEN LET r == remove_device(devs[p].devname, devs)
              IN  /\ devs' = r.list
                  /\ calls' = <<ReadEv(fd, "none")>> \o r.calls
                  /\ broken' = broken \ Closed(r.calls)
                  /\ unread' = (unread \ {fd}) \ Closed(r.calls)
                  /\ faults' = faults + 1
                  /\ pc' = AfterDevices(rfds)
                  /\ rfds' = rfds \cap {cmdfd} /\ p' = 1
         ELSE /\ \E type \in EvTypes :
                   calls' = <<ReadEv(fd, type)>> \o handlers(fd, type)
              /\ unread' = unread \ {fd}
              /\ LET q == FirstReady(rfds, devs, p + 1)
                 IN  IF q > Len(devs)
                     THEN pc' = AfterDevices(rfds) /\ rfds' = rfds \cap {cmdfd} /\ p' = 1
                     ELSE pc' = pc /\ rfds' = rfds /\ p' = q
              /\ UNCHANGED <<devs, broken, faults>>
  /\ UNCHANGED <<argv, command_pipe, cmdfd, cmdbuffer, exitcode,
                 pipe, writer, script, nerrors, eofs, tail, due>>

\* --------------------------------------------------------- command channel
\* read_command_pipe up to the strcat: the read, then the EOF branch or the
\* append. err is whether read() fails, ok whether a reopen succeeds and g the
\* stale bytes that follow the bytes read in buf: buf is not initialised and
\* read() writes no NUL, so strcat copies on until it meets one
read_command_pipe(err, ok, g) ==
  LET len == Len(cmdbuffer)
      rem == MAXCMD - len
      done == IF err THEN -1 ELSE Min(Len(pipe), rem - 1)
      data == SubSeq(pipe, 1, done)
      rd == <<Call("read", <<>>, cmdfd, rem - 1, done)>>
  IN  IF done = 0
      THEN LET c == open_cmd(ok)
           IN  [cmdbuffer |-> <<>>, cmdfd |-> c.cmdfd,
                command_pipe |-> c.command_pipe,
                calls |-> rd \o <<Call("close", <<>>, cmdfd, 0, 0)>> \o c.calls,
                done |-> done, data |-> data]
      ELSE [cmdbuffer |-> cmdbuffer \o data \o g, cmdfd |-> cmdfd,
            command_pipe |-> command_pipe, calls |-> rd,
            done |-> done, data |-> data]

\* The read fails (err) when the descriptor has nothing to read and a writer
\* has the FIFO open: another reader took the bytes select() had seen. A read
\* of no bytes at all returns 0. ok, g and f are drawn where they make a
\* difference: the reopen and the free() happen on the EOF branch only, the
\* strcat on the other one
drain ==
  /\ pc = "command"
  /\ \E err \in BOOLEAN :
       /\ err => (pipe # <<>> /\ writer = "open" /\ Len(cmdbuffer) < MAXCMD - 1)
       /\ nerrors' = IF err THEN nerrors + 1 ELSE nerrors
       /\ ~err => (pipe # <<>> \/ writer = "closed" \/ Len(cmdbuffer) = MAXCMD - 1)
       /\ \E ok \in IF read_command_pipe(err, TRUE, <<>>).done = 0
                     THEN BOOLEAN ELSE {TRUE},
             g \in IF read_command_pipe(err, TRUE, <<>>).done = 0
                    THEN {<<>>} ELSE Garbage :
            LET r == read_command_pipe(err, ok, g)
            IN  /\ cmdbuffer' = r.cmdbuffer
                /\ cmdfd' = r.cmdfd
                /\ command_pipe' = r.command_pipe
                /\ calls' = r.calls
                /\ pipe' = IF err THEN <<>>
                           ELSE SubSeq(pipe, Len(r.data) + 1, Len(pipe))
                /\ IF r.done = 0
                   THEN /\ \E f \in IF r.cmdfd < 0 THEN FreeOutcomes
                                     ELSE {"returns"} :
                             pc' = IF f = "aborts" THEN "aborted" ELSE "loop"
                        /\ writer' = IF writer = "closed" THEN "none" ELSE writer
                        /\ tail' = <<>>
                        /\ due' = <<>>
                        /\ eofs' = eofs + 1
                   ELSE /\ pc' = IF Len(r.cmdbuffer) > MAXCMD - 1
                                 THEN "overflow" ELSE "split"
                        /\ writer' = writer
                        /\ eofs' = eofs
                        /\ tail' = RestOf(tail \o r.data)
                        /\ due' = LinesOf(tail \o r.data)
  /\ line' = NoLine
  /\ rfds' = {}
  /\ UNCHANGED <<argv, devs, p, exitcode, broken, unread, script, faults>>

\* one turn of the while loop of read_command_pipe: the line up to the first
\* newline goes to process_commandline and the rest moves to the front
split ==
  /\ pc = "split"
  /\ LET nl == strchr(cmdbuffer)
     IN  IF nl = 0
         THEN /\ pc' = "loop"
              /\ calls' = <<>>
              /\ line' = NoLine
              /\ UNCHANGED <<cmdbuffer, devs, broken, unread, due>>
         ELSE \E ok \in BOOLEAN :
                LET l == SubSeq(cmdbuffer, 1, nl - 1)
                    r == process_commandline(l, devs, ok)
                IN  /\ devs' = r.list
                    /\ calls' = r.calls
                    /\ broken' = broken \ Closed(r.calls)
                    /\ unread' = unread \ Closed(r.calls)
                    /\ line' = l
                    /\ cmdbuffer' = SubSeq(cmdbuffer, nl + 1, Len(cmdbuffer))
                    /\ due' = IF due = <<>> THEN due ELSE Tail(due)
                    /\ UNCHANGED pc
  /\ UNCHANGED <<argv, command_pipe, cmdfd, rfds, p, exitcode,
                 pipe, writer, script, nerrors, faults, eofs, tail>>

\* ------------------------------------------------------------ environment
\* The environment acts while the daemon waits in select(): a write, a close
\* or an unplugging between the select() and the read has the effect of the
\* same event before the select().
Running == pc = "loop"

\* a client writes to the FIFO
Write ==
  /\ Running
  /\ cmdfd # -1
  /\ script # <<>>
  /\ pipe' = pipe \o Head(script)
  /\ script' = Tail(script)
  /\ writer' = "open"
  /\ UNCHANGED <<prog, argv, broken, unread, nerrors, faults, eofs, tail, due>>
  /\ calls' = <<>> /\ line' = NoLine

\* the client closes the writing end
CloseWriter ==
  /\ Running
  /\ writer = "open"
  /\ writer' = "closed"
  /\ UNCHANGED <<prog, argv, pipe, broken, unread, script, nerrors, faults, eofs, tail, due>>
  /\ calls' = <<>> /\ line' = NoLine

\* a device is unplugged: its reads are short from now on
BreakDevice ==
  /\ Running
  /\ \E fd \in DevFds(devs) \ broken : broken' = broken \cup {fd}
  /\ UNCHANGED <<prog, argv, pipe, writer, unread, script, nerrors, faults, eofs, tail, due>>
  /\ calls' = <<>> /\ line' = NoLine

Next ==
  \/ start_readers
  \/ process_events_exit
  \/ select_fail
  \/ select_timeout
  \/ select_ready
  \/ process_devices
  \/ drain
  \/ split
  \/ Write
  \/ CloseWriter
  \/ BreakDevice

Spec == Init /\ [][Next]_vars

\* The daemon is never suspended for good in its loop: a select() that keeps
\* being able to report readable descriptors eventually does, a dispatch pass
\* that was started goes on, and a false loop condition ends the loop.
Fairness ==
  /\ WF_vars(select_ready)
  /\ WF_vars(process_devices)
  /\ WF_vars(process_events_exit)

FairSpec == Spec /\ Fairness

\* the same with one client that writes one command
LiveScripts == {<< <<"R", SP, "x", NL>> >>}
LiveInit == InitWith(LiveScripts)
LiveSpec == LiveInit /\ [][Next]_vars /\ Fairness

\* ------------------------------------------------------------- the claims
\* what the latest step did, read from its system calls
OpOf(l) == strtok(l).tok
ArgOf(l) == strtok(strtok(l).rest).tok
Opened(cs) == \E i \in 1..Len(cs) : cs[i].call = "open" /\ cs[i].ret >= 0
OpenFailed(cs) == \E i \in 1..Len(cs) : cs[i].call = "open" /\ cs[i].ret < 0
ShortRead(cs) ==
  \E i \in 1..Len(cs) :
    cs[i].call = "read" /\ cs[i].count = EVSIZE /\ cs[i].ret # EVSIZE

\* C1: in every reachable state no two entries of the registry have the same
\* path, whatever the startup path list, the commands and the read faults.
C1_NoDuplicateDevices ==
  \A i, j \in 1..Len(devs) : i # j => devs[i].devname # devs[j].devname

\* C2: after an ADD p that found p registered (it closed a descriptor) and
\* whose open succeeded, the registry holds exactly one entry for p.
C2_ReplaceSemantics ==
  (line # NoLine /\ OpOf(line) = ADD /\ ArgOf(line) # <<>>
     /\ Has(calls, "close") /\ Opened(calls))
  => Count(ArgOf(line), devs) = 1

\* C3: when the read of the ready device at the cursor is short, the registry
\* after the step is the registry before it without that entry: the entry of
\* the faulting stream is the one removed and every other entry stays.
C3_FaultIsolation ==
  [][(pc = "devices" /\ ReadSize(devs[p].fd) # EVSIZE)
     => devs' = RemoveAt(devs, p)]_vars

\* C4: the loop halts only from its head and only with the registry empty and
\* the command descriptor unset; with both true at the head the daemon issues
\* no further select(); while either is false no step halts the loop, however
\* many select() calls time out.
C4_Termination ==
  [][/\ (pc # "start" /\ pc # "done" /\ pc' = "done")
          => (pc = "loop" /\ devs = <<>> /\ cmdfd = -1 /\ exitcode' = 0)
     /\ (pc = "loop" /\ devs = <<>> /\ cmdfd = -1)
          => (pc' \in {"loop", "done"} /\ ~Has(calls', "select"))]_vars

\* the loop has halted after a client wrote to the command channel and a
\* device faulted
C4_Witness ==
  pc = "done" /\ exitcode = 0 /\ Len(script) = 1 /\ faults >= 1

\* C5: without a command channel, once every registered device is faulty the
\* daemon eventually leaves the loop and returns 0; no dispatch pass removes
\* more than one device.
C5_ExitWhenAllFaulted ==
  /\ (pc \in {"loop", "devices"} /\ command_pipe = NULL /\ cmdfd = -1
        /\ DevFds(devs) \subseteq broken)
       ~> (pc = "done" /\ exitcode = 0)
  /\ [][pc = "devices" => Len(devs') >= Len(devs) - 1]_vars

\* a daemon without command channel has returned 0 after two devices faulted
C5_Witness ==
  pc = "done" /\ exitcode = 0 /\ command_pipe = NULL /\ script = <<>>
    /\ writer = "none" /\ faults >= 2

\* C6: the buffer always holds exactly the complete lines read and not parsed
\* yet followed by the unterminated bytes read after them, and every line
\* handed to the parser is the oldest complete line read and not parsed yet.
C6_LineReassembly ==
  /\ [](nerrors = 0 => cmdbuffer = Flatten(due) \o tail)
  /\ [][(nerrors = 0 /\ line' # NoLine)
          => (due # <<>> /\ line' = Head(due))]_vars

\* the step read zero bytes from the command descriptor and reopened the FIFO
EofDrain ==
  /\ Len(calls) = 3
  /\ calls[1].call = "read" /\ calls[1].ret = 0
  /\ calls[3].call = "open" /\ calls[3].ret >= 0

\* C7: a drain that read zero bytes and reopened the FIFO leaves the buffer
\* empty, has closed the descriptor it read, holds the new descriptor and
\* leaves the loop running; after it the buffer holds, and the parser is
\* handed, only bytes read since then.
C7_ReconnectOnEof ==
  /\ [](EofDrain => /\ cmdbuffer = <<>>
                    /\ calls[2].call = "close" /\ calls[2].fd = calls[1].fd
                    /\ cmdfd = calls[3].ret
                    /\ pc = "loop" /\ LoopCond)
  /\ []((eofs > 0 /\ nerrors = 0) => cmdbuffer = Flatten(due) \o tail)

\* a is b with some of its elements left out, the others in b's order
RECURSIVE IsSubSeq(_, _)
IsSubSeq(a, b) ==
  IF a = <<>> THEN TRUE
  ELSE IF b = <<>> THEN FALSE
  ELSE IF Head(a) = Head(b) THEN IsSubSeq(Tail(a), Tail(b))
  ELSE IsSubSeq(a, Tail(b))

Front(s) == SubSeq(s, 1, Len(s) - 1)
Names(list) == [i \in 1..Len(list) |-> list[i].devname]

\* C8: an ADD whose open succeeds leaves the entries it kept in their order
\* and puts the device at the tail, moving an existing entry rather than
\* adding a second one; every other step only leaves entries out, the rest in
\* their order; [x, y, z] after REMOVE x is [y, z].
C8_InsertionOrder ==
  [][/\ (line' # NoLine /\ OpOf(line') = ADD /\ Opened(calls'))
          => /\ devs'[Len(devs')].devname = ArgOf(line')
             /\ IsSubSeq(Front(devs'), devs)
             /\ Len(devs') = Len(devs)
                  + (IF ArgOf(line') \in DevNames(devs) THEN 0 ELSE 1)
     /\ (pc # "start" /\ ~Opened(calls'))
          => IsSubSeq(devs', devs)
     /\ (line' = <<"R", SP, "x">> /\ Names(devs) = << <<"x">>, <<"y">>, <<"z">> >>)
          => Names(devs') = << <<"y">>, <<"z">> >>]_vars

\* REMOVE x has made [y, z] of the registry [x, y, z] that ADD z had made
C8_Witness ==
  /\ line = <<"R", SP, "x">>
  /\ Names(devs) = << <<"y">>, <<"z">> >>
  /\ Has(calls, "close")
  /\ script = <<>>

\* a line the grammar does not accept
Ignored(l) == OpOf(l) = <<>> \/ OpOf(l) \notin {ADD, REMOVE} \/ ArgOf(l) = <<>>

\* C9: a line whose op is absent, is neither ADD nor REMOVE, or has no
\* argument leaves the registry as it was and makes no system call.
C9_UnknownCommandIgnored ==
  [][(line' # NoLine /\ Ignored(line'))
       => (devs' = devs /\ calls' = <<>> /\ broken' = broken)]_vars

\* the unknown command "F x" was handed to the parser while x was registered
C9_Witness ==
  /\ line = <<"F", SP, "x">>
  /\ <<"x">> \in DevNames(devs)
  /\ calls = <<>>

\* C10: the buffer never holds more than MAXCMD-1 bytes, and a read on the
\* command descriptor asks for MAXCMD-1 bytes less the bytes buffered before.
C10_BufferBound ==
  /\ [](Len(cmdbuffer) <= MAXCMD - 1)
  /\ [][pc = "command" => /\ calls'[1].call = "read"
                          /\ calls'[1].count = MAXCMD - 1 - Len(cmdbuffer)]_vars

\* the open() calls of a step: of the command FIFO and of device files
IsCmdOpen(c) == c.call = "open" /\ c.path = <<"fifo">>
IsDevOpen(c) == c.call = "open" /\ c.path # <<"fifo">>
CmdOpenFailed(cs) == \E i \in 1..Len(cs) : IsCmdOpen(cs[i]) /\ cs[i].ret < 0
DevOpens(cs) == {i \in 1..Len(cs) : IsDevOpen(cs[i])}

\* C11: when the initial open of a requested command channel fails, or when
\* neither a device path nor a command channel is given, start_readers returns
\* 1: no device was opened and the loop was not entered.
C11_StartupFailuresFatal ==
  [][(pc = "start"
        /\ (CmdOpenFailed(calls') \/ (Len(argv) < 1 /\ command_pipe = NULL)))
       => (pc' = "done" /\ exitcode' = 1 /\ devs' = <<>>
             /\ DevOpens(calls') = {})]_vars

\* the paths a step tried to open as devices, and the entries of a registry
\* under other paths
OpenedPaths(cs) == {cs[i].path : i \in DevOpens(cs)}
Others(list, qs) ==
  LET keep(e) == e.devname \notin qs IN SelectSeq(list, keep)

\* the last open of q in the step failed
LastOpenFailed(cs, q) ==
  \E i \in DevOpens(cs) :
    /\ cs[i].path = q /\ cs[i].ret < 0
    /\ \A j \in DevOpens(cs) : j > i => cs[j].path # q

\* C12: a step that opens devices, at startup or for an ADD, goes on whatever
\* the opens return; a path whose open failed is not in the registry after the
\* step, the entries under other paths are as before, and select() is handed
\* descriptors of the registry and the command descriptor only.
C12_DeviceOpenFailure ==
  /\ [][DevOpens(calls') # {}
          => /\ pc' \in {"loop", "split"}
             /\ \A q \in OpenedPaths(calls') :
                  LastOpenFailed(calls', q) => q \notin DevNames(devs')
             /\ Others(devs', OpenedPaths(calls'))
                  = Others(devs, OpenedPaths(calls'))]_vars
  /\ [](rfds \subseteq Watched)

\* the descriptors a pass has still to read: the ready entries from the cursor
ToRead == {devs[k].fd : k \in {j \in p..Len(devs) : devs[j].fd \in rfds}}
Reads(cs) == {i \in 1..Len(cs) : cs[i].call = "read"}
Descriptors == 3..(MaxArgs + 5)

Delivered(cs) ==
  {i \in 1..Len(cs) : cs[i].call \in {"change_keystate", "run_triggers"}}

\* C14: a step that reads a whole event of type EV_KEY or EV_SW hands that
\* event to change_keystate and then to run_triggers, once each and before
\* anything else is read; a whole event of another type is handed to neither
\* and leaves the registry as it is; no other step calls the two handlers.
C14_Forwarding ==
  [][IF pc = "devices"
     THEN LET rd == calls'[1]
          IN  IF rd.ret = EVSIZE /\ rd.type \in {EV_KEY, EV_SW}
              THEN calls' = <<rd, Deliver("change_keystate", rd.fd, rd.type),
                              Deliver("run_triggers", rd.fd, rd.type)>>
              ELSE /\ Delivered(calls') = {}
                   /\ rd.ret = EVSIZE => devs' = devs
     ELSE Delivered(calls') = {}]_vars

\* a switch event has been read and handed to the tracker and the engine
C14_Witness ==
  /\ Len(calls) = 3
  /\ calls[1].call = "read" /\ calls[1].ret = EVSIZE
  /\ calls[2].call = "change_keystate" /\ calls[2].type = EV_SW
  /\ calls[3].call = "run_triggers" /\ calls[3].type = EV_SW

\* the step was a select() that returned 0 or -1
IdleSelect(cs) == cs # <<>> /\ cs[1].call = "select" /\ cs[1].ret <= 0

\* C15: a select() that times out or fails is the only call of its step: no
\* read follows, the registry, the command buffer and the command descriptor
\* are as before, no line is parsed, and the daemon is back at the head of the
\* loop; select() is only called from the head, with the loop condition true.
C15_IdleWait ==
  [][/\ IdleSelect(calls')
          => /\ Len(calls') = 1
             /\ devs' = devs /\ cmdbuffer' = cmdbuffer /\ cmdfd' = cmdfd
             /\ command_pipe' = command_pipe
             /\ line' = NoLine
             /\ pc' = "loop"
     /\ Has(calls', "select") => (pc = "loop" /\ LoopCond)]_vars

\* a select() has timed out with a device registered and a partial line in
\* the buffer
C15_Witness ==
  /\ IdleSelect(calls) /\ calls[1].ret = 0
  /\ pc = "loop"
  /\ devs # <<>> /\ cmdbuffer # <<>> /\ cmdfd # -1

\* what open() calls of a step returned
Returned(cs) == {cs[i].ret : i \in {j \in 1..Len(cs) : cs[j].call = "open"}}

\* C16: every read is on a descriptor that is in the set the latest select()
\* filled and that belongs, at the read, to an entry of the registry or is
\* the command descriptor. The set select() fills is a part of the
\* descriptors handed to it; while a descriptor of the set is still to be
\* read no select() and no open is made, the set only shrinks, the command
\* descriptor stays and a pass that goes on leaves the registry as it is, so
\* the owner of a descriptor at its read is its owner at the select(). A
\* descriptor that was closed is dropped from the set, and it is registered
\* again only if an open of the same step returned it.
C16_ReadsOnReadyLive ==
  /\ [](rfds \subseteq Watched /\ (pc \in {"devices", "command"} => rfds # {}))
  /\ [][\A i \in Reads(calls') :
            calls'[i].fd \in rfds /\ calls'[i].fd \in Watched]_vars
  /\ [][(Has(calls', "select") /\ calls'[1].ret > 0)
          => /\ rfds' \subseteq Watched /\ Cardinality(rfds') <= calls'[1].ret
             /\ devs' = devs /\ cmdfd' = cmdfd]_vars
  /\ [][rfds # {}
          => /\ Reads(calls') # {} /\ ~Has(calls', "select")
             /\ rfds' \subseteq rfds
             /\ rfds' # {} => /\ cmdfd' = cmdfd
                              /\ Returned(calls') = {}
                              /\ pc' = "devices" => devs' = devs]_vars
  /\ [][\A fd \in Closed(calls') :
            /\ fd \notin rfds'
            /\ fd \in DevFds(devs') \cup {cmdfd'} => fd \in Returned(calls')]_vars

\* x was added again while y stayed: it is at the tail on descriptor 4, which
\* its first entry had held, and descriptor 4 has just been read
C16_Witness ==
  /\ devs = <<[devname |-> <<"y">>, fd |-> 5], [devname |-> <<"x">>, fd |-> 4]>>
  /\ calls # <<>>
  /\ calls[1].call = "read" /\ calls[1].fd = 4 /\ calls[1].ret = EVSIZE

\* C17: when the read of a drain returns n > 0 bytes, the buffer before the
\* lines are split is the buffer as it was followed by those n bytes, the
\* first n of the FIFO, and nothing else.
C17_ExactAppend ==
  [][(pc = "command" /\ calls'[1].ret > 0)
       => cmdbuffer' = cmdbuffer \o SubSeq(pipe, 1, calls'[1].ret)]_vars

\* C18: with MAXCMD-1 bytes and no newline in the buffer, the drain asks for
\* zero bytes and gets zero: it empties the buffer, closes the command
\* descriptor and opens the FIFO again, hands no line to the parser, leaves
\* the registry as it is and returns to the loop.
C18_FullBufferReset ==
  [][(pc = "command" /\ Len(cmdbuffer) = MAXCMD - 1 /\ strchr(cmdbuffer) = 0)
       => /\ Len(calls') = 3
          /\ calls'[1].call = "read" /\ calls'[1].fd = cmdfd
          /\ calls'[1].count = 0 /\ calls'[1].ret = 0
          /\ calls'[2].call = "close" /\ calls'[2].fd = cmdfd
          /\ IsCmdOpen(calls'[3]) /\ cmdfd' = calls'[3].ret
          /\ cmdbuffer' = <<>>
          /\ line' = NoLine
          /\ devs' = devs
          /\ pc' = "loop"]_vars

\* the step read zero bytes from the command descriptor and the open of the
\* FIFO that followed failed
ReopenFailed(cs) ==
  /\ Len(cs) = 3
  /\ cs[1].call = "read" /\ cs[1].ret = 0
  /\ IsCmdOpen(cs[3]) /\ cs[3].ret < 0

\* the command channel was configured, was reset at least once and its path
\* has been cleared since
Disabled == eofs > 0 /\ command_pipe = NULL

\* C19: a reopen that fails leaves cmdfd = -1 and command_pipe cleared with
\* the daemon at the head of its loop; from then on cmdfd stays -1 and the
\* path cleared, the FIFO is neither opened nor read nor handed to select(),
\* the loop goes on while a device is registered and the daemon returns 0 at
\* the head of the loop once none is.
C19_FailedReconnect ==
  /\ [](ReopenFailed(calls)
         => (cmdfd = -1 /\ command_pipe = NULL /\ pc = "loop"))
  /\ [][Disabled
          => /\ cmdfd' = -1 /\ command_pipe' = NULL
             /\ \A i \in 1..Len(calls') :
                  /\ ~IsCmdOpen(calls'[i])
                  /\ calls'[i].call = "read" => calls'[i].count = EVSIZE
             /\ rfds' \subseteq DevFds(devs)
             /\ pc' = "done" => (pc = "loop" /\ devs = <<>> /\ exitcode' = 0)
             /\ (pc = "loop" /\ devs = <<>>) => (pc' = "done" \/ calls' = <<>>)
             /\ pc' \in {"loop", "devices", "done"}]_vars

\* C20: a drain whose read on the command descriptor returns a negative count
\* leaves cmdbuffer, cmdfd and devs unchanged and hands no line to
\* process_commandline: none in the step of the read, and none in the while
\* loop after it, the buffer holding no newline.
C20_FailedReadNoChange ==
  [][(pc = "command" /\ calls'[1].call = "read" /\ calls'[1].ret < 0)
       => /\ cmdbuffer' = cmdbuffer
          /\ cmdfd' = cmdfd
          /\ devs' = devs
          /\ line' = NoLine
          /\ strchr(cmdbuffer') = 0
          /\ pc' \in {"split", "loop"}]_vars

====
